---- MODULE Spec2Model ----
(***************************************************************************)
(* A model of the reward-battle bot: the progress tracker                  *)
(* (progress_tracker.py), the expansion navigation plan                    *)
(* (test_04_adb_expansions.py) and the search orchestrator                 *)
(* (test_05_adb_full_workflow.py).                                         *)
(*                                                                         *)
(* Nine specifications share the variables:                                *)
(*   SpecStore      the ProgressTracker driven through its public methods  *)
(*   SpecTraversal  the navigation plan of one expansion ordinal           *)
(*   SpecDetector   BattleFinderADB: icon filter, clustering, click point, *)
(*                  verification                                           *)
(*   Spec           RewardBattleBotADB.run, invoked again and again        *)
(*   SpecFresh      the same, in a first session with no progress file     *)
(*   SpecSession    run_infinite_battle_loop (bot_infinite_loop.py)        *)
(*   SpecCancel     the session loop interrupted from the keyboard         *)
(*   SpecLive       the session loop invoking run() for ever, weakly fair  *)
(*   SpecMulti      the bot processes of multi_bot_runner.py, one per      *)
(*                  device, on the progress file they share                *)
(***************************************************************************)
EXTENDS Integers, Sequences, FiniteSets, TLC

VARIABLES
    progress,               \* ProgressTracker.progress: dict key -> count
    file,                   \* expansion_progress.json: <<its text>>, or NoFile
    lastCall,               \* history: the last tracker method called
    calls,                  \* history: number of tracker calls (SpecStore)
    nav,                    \* history: the last navigation plan carried out
    finder,                 \* history: the last call of a BattleFinderADB method
    config,                 \* adb_config.json as loaded at construction
    current_difficulty,     \* RewardBattleBotADB.current_difficulty
    current_series,         \* RewardBattleBotADB.current_series
    last_battle_location,   \* RewardBattleBotADB.last_battle_location
    pc,                     \* position inside run(), "idle" between calls
    resume_from_battle,     \* argument of the invocation in progress
    i,                      \* index of the difficulty loop of run()
    b_exhausted,            \* local of check_difficulty_all_series
    series_name,            \* argument of scan_series_for_rewards
    expansion_num,          \* loop variable of scan_series_for_rewards
    outcome,                \* how the last invocation of run() ended
    scan,                   \* history: the last expansion opened by run()
    stage,                  \* position inside the loop of bot_infinite_loop
    resume_mode,            \* bot_infinite_loop: resume_mode
    cycle,                  \* bot_infinite_loop: cycle
    ui,                     \* history: the UI actions of the last step of run()
    bots                    \* multi_bot_runner: the bot process of each device

storeVars == <<progress, file, lastCall, calls, finder>>
botVars == <<config, current_difficulty, current_series, last_battle_location,
             pc, resume_from_battle, i, b_exhausted, series_name,
             expansion_num, outcome, scan, stage, resume_mode, cycle, ui,
             bots>>
sessionVars == <<stage, resume_mode, cycle>>
vars == <<progress, file, lastCall, calls, nav, finder, config,
          current_difficulty, current_series, last_battle_location, pc,
          resume_from_battle, i,
          b_exhausted, series_name, expansion_num, outcome, scan, stage,
          resume_mode, cycle, ui, bots>>

----------------------------------------------------------------------------
(* Bounds of the model *)

\* largest expansion number passed to mark_checked in SpecStore
MaxN == 5
\* number of tracker calls made in one behaviour of SpecStore
MaxCalls == 2
\* largest total passed to is_series_exhausted in the claims
MaxTotal == 12
\* largest expansion ordinal planned in SpecTraversal
MaxOrdinal == 30
\* largest number of reward icons on one screenshot in SpecDetector
MaxIcons == 5
\* largest max_attempts passed to verify_detection in SpecDetector
MaxAttempts == 2
\* number of cycles the session loop completes in one behaviour
MaxCycles == 2
\* largest number of connected components on one screenshot in SpecDetector
MaxContours == 2

----------------------------------------------------------------------------
(* Program constants *)

\* EXPANSION_COUNTS["A"] and the tracker's own copy of it
CountA == 11
\* EXPANSION_COUNTS["B"] and the tracker's own copy of it
CountB == 1

EXPANSION_COUNTS == [A |-> CountA, B |-> CountB]

\* the series of the catalog, in the order check_difficulty_all_series takes them
SeriesNames == {"A", "B"}

\* the difficulty list of run()
Difficulties == <<"beginner", "intermediate", "advanced", "expert">>

\* the difficulty list of ProgressTracker.is_fully_exhausted
TrackerDifficulties == <<"intermediate", "advanced", "expert">>

DifficultyNames == {Difficulties[k] : k \in 1..Len(Difficulties)}

\* no expansion_progress.json on disk; an existing file is <<its text>>
NoFile == <<>>
\* last_battle_location = None; a saved location is <<difficulty, series, n>>
None == <<>>

----------------------------------------------------------------------------
(* Python dict helpers *)

\* dict.get(key, default)
Get(dict, key, default) == IF key \in DOMAIN dict THEN dict[key] ELSE default

\* dict[key] = value
Put(dict, key, value) ==
    [k \in (DOMAIN dict) \cup {key} |-> IF k = key THEN value ELSE dict[k]]

----------------------------------------------------------------------------
(* ProgressTracker *)

get_key(difficulty, series) == difficulty \o "_" \o series

\* the dict literal of load_progress (no file) and of reset_progress
DefaultProgress ==
    [k \in {get_key(TrackerDifficulties[d], s) :
              d \in 1..Len(TrackerDifficulties), s \in SeriesNames} |-> 0]

\* json.dump(self.progress, f): the text is one JSON object, taken as the set
\* of its members <<name, number>>, one per key of the dict
json_dump(p) == {<<k, p[k]>> : k \in DOMAIN p}

\* json.load(f): the dict with one key per member name of the object
json_load(text) ==
    [k \in {m[1] : m \in text} |-> (CHOOSE m \in text : m[1] = k)[2]]

\* the file save_progress leaves: opened with 'w', it holds this dict only
save_progress(p) == <<json_dump(p)>>

load_progress(f) == IF f # NoFile THEN json_load(f[1]) ELSE DefaultProgress

get_start_position_default1(p, difficulty, series) ==
    Get(p, get_key(difficulty, series), 1) + 1

get_start_position(p, difficulty, series) ==
    Get(p, get_key(difficulty, series), 0) + 1

\* what mark_checked leaves in self.progress
mark_checked_forward(p, difficulty, series, n) ==
    LET key == get_key(difficulty, series)
        current == Get(p, key, 0)
    IN  IF n >= current + 1 THEN Put(p, key, n) ELSE p

mark_checked_regress(p, difficulty, series, n) ==
    LET key == get_key(difficulty, series)
        current == Get(p, key, 0)
    IN  IF n # current THEN Put(p, key, n) ELSE p

mark_checked(p, difficulty, series, n) ==
    LET key == get_key(difficulty, series)
        current == Get(p, key, 0)
    IN  IF n = current + 1 THEN Put(p, key, n) ELSE p

mark_checked_saves_never(p, difficulty, series, n) == FALSE

\* whether mark_checked reaches save_progress
mark_checked_saves(p, difficulty, series, n) ==
    n = Get(p, get_key(difficulty, series), 0) + 1

is_series_exhausted_strict(p, difficulty, series, total) ==
    Get(p, get_key(difficulty, series), 0) > total

is_series_exhausted(p, difficulty, series, total) ==
    Get(p, get_key(difficulty, series), 0) >= total

is_difficulty_exhausted(p, difficulty, expansion_counts) ==
    \A s \in DOMAIN expansion_counts :
        is_series_exhausted(p, difficulty, s, expansion_counts[s])

is_fully_exhausted_any(p) ==
    \E d \in 1..Len(TrackerDifficulties) :
        is_difficulty_exhausted(p, TrackerDifficulties[d], EXPANSION_COUNTS)

is_fully_exhausted(p) ==
    \A d \in 1..Len(TrackerDifficulties) :
        is_difficulty_exhausted(p, TrackerDifficulties[d], EXPANSION_COUNTS)

reset_progress_known_keys(p) ==
    [k \in DOMAIN p |-> IF k \in DOMAIN DefaultProgress THEN 0 ELSE p[k]]

reset_progress(p) == DefaultProgress

----------------------------------------------------------------------------
(* ExpansionSearcherADB: the navigation plan of one expansion *)

\* number of expansion slots the calibration records
NumSlots == 3

get_scrolls_for_expansion_offbyone(index) ==
    IF index <= 1 THEN 0 ELSE index - 1

get_scrolls_for_expansion(index) ==
    IF index <= 2 THEN 0 ELSE index - 2

\* the 0-based index into config["expansion_slots"]
get_visible_slot_index_from_top(expansion_number) ==
    IF expansion_number = 1 THEN 0
    ELSE IF expansion_number = 2 THEN 1
    ELSE 2

get_visible_slot_index(expansion_number) ==
    IF expansion_number = 1 THEN 1
    ELSE IF expansion_number = 2 THEN 2
    ELSE 2

\* the return value: False when the index is past the calibrated slots
open_visible_expansion(cfg, visible_index) ==
    ~(visible_index >= cfg.expansion_slots)

\* steps 3 and 4 of a navigation: the scroll gestures made and the slot tapped.
\* slot is the 1-based position of the tapped entry of expansion_slots (TOP = 1,
\* MIDDLE = 2, BOTTOM = 3), 0 when nothing was tapped.
Navigate(cfg, n) ==
    LET scrolls  == get_scrolls_for_expansion(n)
        slot_idx == get_visible_slot_index(n)
        opened   == open_visible_expansion(cfg, slot_idx)
    IN  [n       |-> n,
         scrolls |-> IF scrolls > 0 THEN scrolls ELSE 0,
         slot    |-> IF opened THEN slot_idx + 1 ELSE 0,
         opened  |-> opened]

NoNav == [n |-> 0, scrolls |-> 0, slot |-> 0, opened |-> FALSE]

----------------------------------------------------------------------------
(* BattleFinderADB: from the reward icons of one screenshot to a click point *)

\* icons closer than this (vertically) belong to the same battle card
ClusterGap == 80
\* a recheck farther than this from the first position does not confirm it
VerifyRadius == 50

\* find_battle_with_rewards or verify_detection gave no position
NoPos == <<>>

\* find_reward_icons, the size filter: "if 150 < area < 3000"
AreaLow == 150
AreaHigh == 3000

\* find_reward_icons, "aspect_ratio = bw / bh if bh > 0 else 0": the ratio as
\* the fraction <<numerator, denominator>>, 0 being <<0, 1>>
AspectRatio(bw, bh) == IF bh > 0 THEN <<bw, bh>> ELSE <<0, 1>>

\* "0.5 < aspect_ratio < 2.5" on the fraction: 1/2 < p/q < 5/2 with q > 0
AspectInside_closed(ratio) ==
    /\ ratio[2] <= 2 * ratio[1]
    /\ 2 * ratio[1] <= 5 * ratio[2]

AspectInside(ratio) ==
    /\ ratio[2] < 2 * ratio[1]
    /\ 2 * ratio[1] < 5 * ratio[2]

AreaInside_closed(area) == AreaLow <= area /\ area <= AreaHigh

AreaInside(area) == AreaLow < area /\ area < AreaHigh

\* the body of the loop over the contours: a contour, given as
\* <<area, <<bx, by, bw, bh>>>>, is appended as (center_x, center_y, area), in
\* full-screen coordinates, when it passes both filters
RECURSIVE FilterContours(_, _, _)
FilterContours(region, contours, k) ==
    IF k > Len(contours) THEN <<>>
    ELSE LET area == contours[k][1]
             box  == contours[k][2]
             center_x == region[1] + box[1] + (box[3] \div 2)
             center_y == region[2] + box[2] + (box[4] \div 2)
             rest == FilterContours(region, contours, k + 1)
         IN  IF AreaInside(area) /\ AspectInside(AspectRatio(box[3], box[4]))
             THEN <<<<center_x, center_y, area>>>> \o rest
             ELSE rest

\* find_reward_icons(screen_cv): nothing without a calibrated region (None is
\* <<>>), else the contours of the colour mask that pass the filters
find_reward_icons(region, contours) ==
    IF region = <<>> THEN <<>> ELSE FilterContours(region, contours, 1)

\* sorted(icons, key=lambda p: p[1]): e goes behind every icon that does not lie
\* below it, so icons of equal y keep their order
InsertByY(sorted, e) ==
    LET k == Cardinality({j \in 1..Len(sorted) : sorted[j][2] <= e[2]})
    IN  SubSeq(sorted, 1, k) \o <<e>> \o SubSeq(sorted, k + 1, Len(sorted))

RECURSIVE SortedByY(_)
SortedByY(icons) ==
    IF icons = <<>> THEN <<>>
    ELSE InsertByY(SortedByY(SubSeq(icons, 1, Len(icons) - 1)),
                   icons[Len(icons)])

AbsDiff(a, b) == IF a >= b THEN a - b ELSE b - a

SameBattleInclusive(y_diff) == y_diff <= ClusterGap

\* "Icons within 80px = same battle"
SameBattle(y_diff) == y_diff < ClusterGap

\* a cluster that is closed is kept only with 2 icons or more
Flush(clusters, current_cluster) ==
    IF Len(current_cluster) >= 2
    THEN Append(clusters, current_cluster) ELSE clusters

\* the loop of group_icons_into_battles from index k on (1-based), and the
\* flush of the last cluster behind it
RECURSIVE GroupFrom(_, _, _, _)
GroupFrom(icons, k, current_cluster, clusters) ==
    IF k > Len(icons) THEN Flush(clusters, current_cluster)
    ELSE IF SameBattle(AbsDiff(icons[k][2],
                               current_cluster[Len(current_cluster)][2]))
    THEN GroupFrom(icons, k + 1, Append(current_cluster, icons[k]), clusters)
    ELSE GroupFrom(icons, k + 1, <<icons[k]>>, Flush(clusters, current_cluster))

group_icons_into_battles(icons) ==
    IF icons = <<>> THEN <<>>
    ELSE LET s == SortedByY(icons)
         IN  GroupFrom(s, 2, <<s[1]>>, <<>>)

RECURSIVE SumOf(_, _)
SumOf(seq, field) ==
    IF seq = <<>> THEN 0
    ELSE seq[1][field] + SumOf(Tail(seq), field)

get_battle_click_position_first_icon(cluster) ==
    <<cluster[1][1], cluster[1][2]>>

\* the averages use //; the coordinates are not negative
get_battle_click_position(cluster) ==
    <<SumOf(cluster, 1) \div Len(cluster), SumOf(cluster, 2) \div Len(cluster)>>

\* which cluster find_battle_with_rewards takes: battle_clusters[0]
FirstBattleLast(battle_clusters) == battle_clusters[Len(battle_clusters)]

FirstBattle(battle_clusters) == battle_clusters[1]

\* find_battle_with_rewards once the icons of the screenshot are known
find_battle_with_rewards(icons) ==
    IF icons = <<>> THEN NoPos
    ELSE IF group_icons_into_battles(icons) = <<>> THEN NoPos
    ELSE get_battle_click_position(FirstBattle(group_icons_into_battles(icons)))

WithinRadiusStrict(p1, p2) ==
    (p2[1] - p1[1]) * (p2[1] - p1[1]) + (p2[2] - p1[2]) * (p2[2] - p1[2])
        < VerifyRadius * VerifyRadius

\* not (distance > 50), distance = ((x2-x1)**2 + (y2-y1)**2)**0.5: the square
\* root of a whole number is above 50 exactly when the number is above 2500
WithinRadius(p1, p2) ==
    ~((p2[1] - p1[1]) * (p2[1] - p1[1]) + (p2[2] - p1[2]) * (p2[2] - p1[2])
        > VerifyRadius * VerifyRadius)

\* the loop of verify_detection from attempt k on (1-based). rechecks[k] is what
\* the k-th find_battle_with_rewards would give: <<"pos", position>>,
\* <<"none", NoPos>> (None) or <<"raise", NoPos>> (the screenshot failed).
\* The result: the position returned (NoPos for None), whether the exception
\* left verify_detection, and the number of re-detections made.
RECURSIVE VerifyFrom(_, _, _, _)
VerifyFrom(click_pos, rechecks, max_attempts, k) ==
    IF k > max_attempts
    THEN [result |-> NoPos, raised |-> FALSE, made |-> max_attempts]
    ELSE IF rechecks[k][1] = "raise"
    THEN [result |-> NoPos, raised |-> TRUE, made |-> k]
    ELSE IF rechecks[k][1] = "none"
    THEN VerifyFrom(click_pos, rechecks, max_attempts, k + 1)
    ELSE IF ~WithinRadius(click_pos, rechecks[k][2])
    THEN VerifyFrom(click_pos, rechecks, max_attempts, k + 1)
    ELSE [result |-> rechecks[k][2], raised |-> FALSE, made |-> k]

verify_detection_one_short(click_pos, rechecks, max_attempts) ==
    VerifyFrom(click_pos, rechecks, max_attempts - 1, 1)

verify_detection(click_pos, rechecks, max_attempts) ==
    VerifyFrom(click_pos, rechecks, max_attempts, 1)

NoDet == [op |-> "none", icons |-> <<>>, clusters |-> <<>>, click |-> NoPos,
          click_pos |-> NoPos, rechecks |-> <<>>, max_attempts |-> 0,
          result |-> NoPos, raised |-> FALSE, made |-> 0,
          region |-> <<>>, contours |-> <<>>, detections |-> <<>>]

----------------------------------------------------------------------------
(* Configuration and persisted records a session can start from *)

\* adb_config.json, reduced to what run() and its callees test: whether
\* battle_list_region is present, which series buttons are calibrated, and how
\* many expansion slots were recorded
Configs ==
    [battle_list_region : BOOLEAN,
     series_buttons     : SUBSET SeriesNames,
     expansion_slots    : 0..NumSlots]

CompleteConfig ==
    [battle_list_region |-> TRUE,
     series_buttons     |-> SeriesNames,
     expansion_slots    |-> NumSlots]

AllKeys == {get_key(d, s) : d \in DifficultyNames, s \in SeriesNames}

KeyDifficulty(k) ==
    CHOOSE d \in DifficultyNames : \E s \in SeriesNames : get_key(d, s) = k

KeySeries(k) ==
    CHOOSE s \in SeriesNames : \E d \in DifficultyNames : get_key(d, s) = k

\* a progress file left by an earlier session: each difficulty is either not
\* recorded, recorded with nothing checked, or recorded as exhausted
RowKinds == {"absent", "zero", "full"}

FileOf(kinds) ==
    [k \in {get_key(d, s) : d \in {x \in DifficultyNames : kinds[x] # "absent"},
                            s \in SeriesNames} |->
        IF kinds[KeyDifficulty(k)] = "zero" THEN 0
        ELSE EXPANSION_COUNTS[KeySeries(k)]]

InitFiles ==
    {save_progress(FileOf(kinds)) : kinds \in [DifficultyNames -> RowKinds]}

\* history of the expansion run() opened last: the phase ("resume" or
\* "normal"), the expansion, whether it opened, what the detection inside gave
\* ("" when none was made), the count of its key before, and the location the
\* invocation resumed from (None when it did not resume)
NoScan == [phase |-> "none", difficulty |-> "", series |-> "", n |-> 0,
           opened |-> FALSE, det |-> "", count |-> 0, resumed |-> <<>>]

\* history of the last step of run(): which step it was and the UI actions
\* (taps, swipes, back presses, detections) it issued, in order
NoUi == [step |-> "none", actions |-> <<>>]

\* multi_bot_runner.main: one bot process is launched per connected emulator
Devices == {"127.0.0.1:16384", "127.0.0.1:16416"}

\* a bot process not launched yet; once up it holds its own
\* ProgressTracker.progress, and saved tells whether it has written
\* PROGRESS_FILE
NoBot == [up |-> FALSE, progress |-> DefaultProgress, saved |-> FALSE]

NoCall == [op |-> "none", difficulty |-> "", series |-> "", n |-> 0,
           before |-> DefaultProgress]

\* RewardBattleBotADB.__init__ and ProgressTracker.__init__: the store the bot
\* works on is self.progress = ProgressTracker() (line 38). Line 31,
\* self.tracker = ProgressTracker(device_id), passes an argument that
\* ProgressTracker.__init__ does not take; self.tracker is used nowhere, and the
\* model starts from the object the remaining lines build.
Constructed(f, cfg) ==
    /\ file = f
    /\ progress = load_progress(f)
    /\ lastCall = NoCall
    /\ calls = 0
    /\ nav = NoNav
    /\ finder = NoDet
    /\ config = cfg
    /\ current_difficulty = "beginner"
    /\ current_series = "A"
    /\ last_battle_location = None
    /\ pc = "idle"
    /\ resume_from_battle = FALSE
    /\ i = 0
    /\ b_exhausted = FALSE
    /\ series_name = "A"
    /\ expansion_num = 0
    /\ outcome = "none"
    /\ scan = NoScan
    /\ stage = "find"
    /\ resume_mode = FALSE
    /\ cycle = 1
    /\ ui = NoUi
    /\ bots = [dev \in Devices |-> NoBot]

----------------------------------------------------------------------------
(* SpecStore: the tracker's methods called in any order *)

InitStore == \E f \in {NoFile} \cup InitFiles : Constructed(f, CompleteConfig)

MarkChecked(difficulty, series, n) ==
    /\ calls < MaxCalls
    /\ progress' = mark_checked(progress, difficulty, series, n)
    /\ file' = IF mark_checked_saves(progress, difficulty, series, n)
               THEN save_progress(progress') ELSE file
    /\ lastCall' = [op |-> "mark_checked", difficulty |-> difficulty,
                    series |-> series, n |-> n, before |-> progress]
    /\ calls' = calls + 1
    /\ UNCHANGED <<nav, finder, botVars>>

ResetProgress ==
    /\ calls < MaxCalls
    /\ progress' = reset_progress(progress)
    /\ file' = save_progress(progress')
    /\ lastCall' = [op |-> "reset_progress", difficulty |-> "", series |-> "",
                    n |-> 0, before |-> progress]
    /\ calls' = calls + 1
    /\ UNCHANGED <<nav, finder, botVars>>

NextStore ==
    \/ \E d \in DifficultyNames, s \in SeriesNames, n \in 1..MaxN :
          MarkChecked(d, s, n)
    \/ ResetProgress

SpecStore == InitStore /\ [][NextStore]_vars

----------------------------------------------------------------------------
(* SpecTraversal: the plan of one navigation, for any ordinal *)

InitTraversal == \E cfg \in Configs : Constructed(NoFile, cfg)

OpenExpansion(n) ==
    /\ nav' = Navigate(config, n)
    /\ UNCHANGED <<storeVars, botVars>>

NextTraversal == \E n \in 1..MaxOrdinal : OpenExpansion(n)

SpecTraversal == InitTraversal /\ [][NextTraversal]_vars

----------------------------------------------------------------------------
(* SpecDetector: one call of a finder method, on any screenshot *)

\* the reward icons a screenshot can show, as find_reward_icons lists them:
\* (center_x, center_y, area)
Icons == {<<100, 10, 200>>, <<131, 50, 200>>, <<100, 90, 200>>,
          <<100, 140, 200>>, <<131, 140, 200>>, <<131, 160, 200>>,
          <<100, 500, 200>>}

IconLists == UNION {[1..n -> Icons] : n \in 0..MaxIcons}

\* the positions a detection can report
Points == {<<100, 100>>, <<130, 140>>, <<131, 140>>, <<100, 150>>,
           <<100, 151>>, <<200, 200>>}

Rechecks == {<<"pos", pt>> : pt \in Points}
                \cup {<<"none", NoPos>>, <<"raise", NoPos>>}

\* reward_detection_region as calibrated, (x, y, w, h), or None
Regions == {<<>>, <<40, 60, 400, 900>>}

\* the connected components a colour mask can hold: their contourArea and
\* their boundingRect (bx, by, bw, bh)
ContourAreas == {AreaLow - 1, AreaLow, AreaLow + 1,
                 AreaHigh - 1, AreaHigh, AreaHigh + 1}

ContourBoxes == {<<10, 20, 1, 4>>, <<10, 20, 10, 20>>, <<10, 20, 20, 20>>,
                 <<10, 20, 50, 20>>, <<10, 20, 60, 20>>, <<10, 20, 20, 0>>}

Contours == ContourAreas \X ContourBoxes

ContourLists == UNION {[1..n -> Contours] : n \in 0..MaxContours}

InitDetector == Constructed(NoFile, CompleteConfig)

\* find_reward_icons on a screenshot whose mask holds any of the contour lists
FindRewardIcons ==
    /\ finder.op = "none"
    /\ \E region \in Regions, contours \in ContourLists :
          finder' = [NoDet EXCEPT
                       !.op = "icons",
                       !.region = region,
                       !.contours = contours,
                       !.detections = find_reward_icons(region, contours)]
    /\ UNCHANGED <<progress, file, lastCall, calls, nav, botVars>>

\* find_battle_with_rewards on a screenshot showing any of the icon lists
FindBattle ==
    /\ finder.op = "none"
    /\ \E icons \in IconLists :
          finder' = [NoDet EXCEPT
                       !.op = "find",
                       !.icons = icons,
                       !.clusters = group_icons_into_battles(icons),
                       !.click = find_battle_with_rewards(icons)]
    /\ UNCHANGED <<progress, file, lastCall, calls, nav, botVars>>

\* verify_detection(click_pos, max_attempts) with any outcome of each recheck
VerifyDetection ==
    /\ finder.op = "none"
    /\ \E click_pos \in Points, max_attempts \in 0..MaxAttempts :
          \E rechecks \in [1..max_attempts -> Rechecks] :
             LET v == verify_detection(click_pos, rechecks, max_attempts)
             IN  finder' = [NoDet EXCEPT
                              !.op = "verify",
                              !.click_pos = click_pos,
                              !.rechecks = rechecks,
                              !.max_attempts = max_attempts,
                              !.result = v.result,
                              !.raised = v.raised,
                              !.made = v.made]
    /\ UNCHANGED <<progress, file, lastCall, calls, nav, botVars>>

NextDetector ==
    \/ FindRewardIcons
    \/ FindBattle
    \/ VerifyDetection

SpecDetector == InitDetector /\ [][NextDetector]_vars

----------------------------------------------------------------------------
(* Spec: RewardBattleBotADB.run, one step per navigation-and-scan *)

\* what one call of find_battle_with_rewards can give: a click position, None,
\* or the exception of screenshot_raw
Detections == {"found", "none", "raise"}

DifficultyIndex_first(name) == 0

\* difficulties.index(name), 0-based
DifficultyIndex(name) ==
    (CHOOSE k \in 1..Len(Difficulties) : Difficulties[k] = name) - 1

\* range(start_from, expansion_count + 1) has not run out at expansion_num
InRangeShort(num, expansion_count) == num < expansion_count

InRangeOneMore(num, expansion_count) == num < expansion_count + 2

InRange(num, expansion_count) == num < expansion_count + 1

BotMarkChecked_forgets(difficulty, series, n) ==
    UNCHANGED <<progress, file, lastCall, calls, finder>>

\* self.progress.mark_checked(...) called from the bot
BotMarkChecked(difficulty, series, n) ==
    /\ progress' = mark_checked(progress, difficulty, series, n)
    /\ file' = IF mark_checked_saves(progress, difficulty, series, n)
               THEN save_progress(progress') ELSE file
    /\ lastCall' = [op |-> "mark_checked", difficulty |-> difficulty,
                    series |-> series, n |-> n, before |-> progress]
    /\ calls' = calls
    /\ finder' = finder

\* where control goes next: the program position, the series and expansion
\* the scan loop is at, self.current_series, and whether the difficulty loop
\* of run() moves on to its next iteration
ToScan(series, num) ==
    [pc |-> "scan", series_name |-> series, expansion_num |-> num,
     current_series |-> series, advance |-> 0]

ToNextDifficulty_stays(series) ==
    [pc |-> "difficulty", series_name |-> "A", expansion_num |-> 0,
     current_series |-> series, advance |-> 0]

\* check_difficulty_all_series returned None: the for loop of run() takes its
\* next difficulty
ToNextDifficulty(series) ==
    [pc |-> "difficulty", series_name |-> "A", expansion_num |-> 0,
     current_series |-> series, advance |-> 1]

\* check_difficulty_all_series, lines 274-288: the B-series, entered after the
\* A-series (scanned or skipped) gave nothing
StartSeriesB(p, difficulty, last_series, bexh) ==
    IF ~bexh
    THEN IF get_start_position(p, difficulty, "B") > EXPANSION_COUNTS["B"]
         THEN ToNextDifficulty("B")
         ELSE ToScan("B", get_start_position(p, difficulty, "B"))
    ELSE ToNextDifficulty(last_series)

\* scan_series_for_rewards(series, ...) returned None
AfterSeries(p, difficulty, series, bexh) ==
    IF series = "A"
    THEN StartSeriesB(p, difficulty, "A", bexh)
    ELSE ToNextDifficulty("B")

\* check_difficulty_all_series, lines 250-272, for the current difficulty
CheckDifficultyAllSeries(p, difficulty, last_series) ==
    LET a_exhausted ==
            is_series_exhausted(p, difficulty, "A", EXPANSION_COUNTS["A"])
        bexh ==
            is_series_exhausted(p, difficulty, "B", EXPANSION_COUNTS["B"])
    IN  IF a_exhausted /\ bexh
        THEN ToNextDifficulty(last_series)
        ELSE IF ~a_exhausted
        THEN IF get_start_position(p, difficulty, "A") > EXPANSION_COUNTS["A"]
             THEN AfterSeries(p, difficulty, "A", bexh)
             ELSE ToScan("A", get_start_position(p, difficulty, "A"))
        ELSE StartSeriesB(p, difficulty, last_series, bexh)

ContinueLoop_skips(p, difficulty, series, num, bexh) ==
    IF InRange(num + 2, EXPANSION_COUNTS[series])
    THEN ToScan(series, num + 2)
    ELSE AfterSeries(p, difficulty, series, bexh)

\* the end of one iteration of the loop of scan_series_for_rewards
ContinueLoop(p, difficulty, series, num, bexh) ==
    IF InRange(num + 1, EXPANSION_COUNTS[series])
    THEN ToScan(series, num + 1)
    ELSE AfterSeries(p, difficulty, series, bexh)

Goto(to) ==
    /\ pc' = to.pc
    /\ series_name' = to.series_name
    /\ expansion_num' = to.expansion_num
    /\ current_series' = to.current_series
    /\ i' = i + to.advance

Return_swallows(how) ==
    /\ pc' = "idle"
    /\ outcome' = IF how = "raised" THEN "no_rewards" ELSE how
    /\ i' = 0
    /\ series_name' = "A"
    /\ expansion_num' = 0
    /\ b_exhausted' = FALSE

\* run() returns (or raises): back to the caller
Return(how) ==
    /\ pc' = "idle"
    /\ outcome' = how
    /\ i' = 0
    /\ series_name' = "A"
    /\ expansion_num' = 0
    /\ b_exhausted' = FALSE

ProgressAfterFind_marked(p, difficulty, series, n) ==
    mark_checked(p, difficulty, series, n)

\* scan_series_for_rewards, lines 227-232: rewards found in expansion n, "Save
\* location but DON'T mark as exhausted"
ProgressAfterFind(p, difficulty, series, n) == p

\* the record of an expansion run() navigated to; count is the checked count of
\* its key at that moment
Scanned(phase, difficulty, series, n, opened, det, resumed) ==
    [phase |-> phase, difficulty |-> difficulty, series |-> series, n |-> n,
     opened |-> opened, det |-> det,
     count |-> Get(progress, get_key(difficulty, series), 0),
     resumed |-> resumed]

\* scan_expansion_for_rewards, line 125: for i in range(3)
FastScrolls == 3

\* k times the same UI action
Repeat(action, k) == [j \in 1..k |-> action]

\* switch_to_difficulty(difficulty_name), lines 69-99: back, two scrolls unless
\* the target is beginner, the tap of the difficulty button
switch_to_difficulty(difficulty_name) ==
    <<"back">>
      \o (IF difficulty_name # "beginner"
          THEN Repeat("difficulty_scroll", 2) ELSE <<>>)
      \o <<"difficulty_tap">>

\* run, lines 324-325 and 377-378: the switch is made only when the bot
\* believes it is on another difficulty
SwitchIfNeeded(current, difficulty) ==
    IF current # difficulty THEN switch_to_difficulty(difficulty) ELSE <<>>

\* ensure_series(target_series), lines 108-128
ensure_series(current, target_series) ==
    IF current = target_series THEN <<>> ELSE <<"menu", "series_tap">>

\* perform_scroll_gesture(scrolls) when scrolls > 0, then
\* open_visible_expansion, which taps only a slot that was calibrated
OpenActions(plan) ==
    Repeat("list_scroll", plan.scrolls)
      \o (IF plan.opened THEN <<"slot_tap">> ELSE <<>>)

scan_expansion_for_rewards_two_looks(cfg) ==
    <<"detect">> \o Repeat("fast_scroll", FastScrolls) \o <<"detect">>

\* scan_expansion_for_rewards, lines 100-146: nothing without the battle list
\* region; else the fast scrolls to the bottom of the battle list, then the
\* single detection
scan_expansion_for_rewards(cfg) ==
    IF ~cfg.battle_list_region
    THEN <<>>
    ELSE Repeat("fast_scroll", FastScrolls) \o <<"detect">>

\* the UI actions of one pass of the expansion loop of
\* scan_series_for_rewards, lines 186-225
NormalOpening(cfg, series, plan) ==
    <<"menu">>
      \o (IF series \in cfg.series_buttons
          THEN <<"series_tap">> \o OpenActions(plan)
                 \o (IF plan.opened
                     THEN scan_expansion_for_rewards(cfg) ELSE <<>>)
          ELSE <<>>)

\* the UI actions of the resume phase of run(), lines 320-341
ResumeOpening(difficulty, series, plan) ==
    SwitchIfNeeded(current_difficulty, difficulty)
      \o <<"menu">>
      \o ensure_series(current_series, series)
      \o OpenActions(plan)
      \o (IF plan.opened THEN scan_expansion_for_rewards(config) ELSE <<>>)

Step(step, actions) == [step |-> step, actions |-> actions]

ResumePhase_any_location(resume, location) == location # None

\* run, line 320: if resume_from_battle and self.last_battle_location
ResumePhase(resume, location) == resume /\ location # None

\* run(resume_from_battle), lines 292-320
RunStart(resume) ==
    /\ pc = "idle"
    /\ resume_from_battle' = resume
    /\ IF ~config.battle_list_region
       THEN Return("no_region")
       ELSE /\ pc' = IF ResumePhase(resume, last_battle_location)
                     THEN "resume" ELSE "check"
            /\ outcome' = "running"
            /\ UNCHANGED <<i, series_name, expansion_num, b_exhausted>>
    /\ scan' = NoScan
    /\ ui' = NoUi
    /\ UNCHANGED <<storeVars, nav, config, current_difficulty, current_series,
                   last_battle_location, bots>>

\* run(), lines 320-349: the resume phase
ResumeScan ==
    /\ pc = "resume"
    /\ LET difficulty == last_battle_location[1]
           series     == last_battle_location[2]
           num        == last_battle_location[3]
       IN  /\ current_difficulty' = difficulty
           /\ current_series' = series
           /\ nav' = Navigate(config, num)
           /\ ui' = Step("resume", ResumeOpening(difficulty, series, nav'))
           /\ IF nav'.opened
              THEN \E det \in Detections :
                      /\ scan' = Scanned("resume", difficulty, series, num,
                                         TRUE, det, last_battle_location)
                      /\ \/ /\ det = "raise"
                            /\ Return("raised")
                            /\ UNCHANGED <<storeVars, last_battle_location>>
                         \/ /\ det = "found"
                            /\ Return("found")
                            /\ UNCHANGED <<storeVars, last_battle_location>>
                         \/ /\ det = "none"
                            /\ BotMarkChecked(difficulty, series, num)
                            /\ last_battle_location' = None
                            /\ pc' = "check"
                            /\ UNCHANGED <<outcome, i, series_name,
                                           expansion_num, b_exhausted>>
              ELSE /\ scan' = Scanned("resume", difficulty, series, num,
                                      FALSE, "", last_battle_location)
                   /\ last_battle_location' = None
                   /\ pc' = "check"
                   /\ UNCHANGED <<storeVars, outcome, i, series_name,
                                  expansion_num, b_exhausted>>
    /\ UNCHANGED <<config, resume_from_battle, sessionVars, bots>>

\* run(), lines 351-368: the exhaustion test and the quick check
QuickCheck ==
    /\ pc = "check"
    /\ ui' = Step("check", IF is_fully_exhausted(progress)
                            THEN <<>> ELSE <<"detect">>)
    /\ IF is_fully_exhausted(progress)
       THEN Return("all_checked")
       ELSE \E det \in Detections :
               \/ /\ det = "raise"
                  /\ Return("raised")
               \/ /\ det = "found"
                  /\ Return("found")
               \/ /\ det = "none"
                  /\ pc' = "difficulty"
                  /\ i' = IF resume_from_battle
                          THEN DifficultyIndex(current_difficulty) ELSE 0
                  /\ UNCHANGED <<outcome, series_name, expansion_num,
                                 b_exhausted>>
    /\ UNCHANGED <<storeVars, nav, config, current_difficulty, current_series,
                   last_battle_location, resume_from_battle, scan,
                   sessionVars, bots>>

\* run(), lines 370-390: one iteration of the difficulty loop up to the first
\* expansion to scan, or the end of the loop
DifficultyStep ==
    /\ pc = "difficulty"
    /\ IF i >= Len(Difficulties)
       THEN /\ Return("no_rewards")
            /\ ui' = Step("end", <<>>)
            /\ UNCHANGED <<current_difficulty, current_series>>
       ELSE /\ current_difficulty' = Difficulties[i + 1]
            /\ ui' = Step("difficulty",
                          SwitchIfNeeded(current_difficulty,
                                         Difficulties[i + 1]))
            /\ b_exhausted' = is_series_exhausted(progress, Difficulties[i + 1],
                                                  "B", EXPANSION_COUNTS["B"])
            /\ Goto(CheckDifficultyAllSeries(progress, Difficulties[i + 1],
                                             current_series))
            /\ UNCHANGED outcome
    /\ UNCHANGED <<storeVars, nav, config, last_battle_location,
                   resume_from_battle, scan, sessionVars, bots>>

\* scan_series_for_rewards, lines 186-237: one iteration of the expansion loop
ScanExpansion ==
    /\ pc = "scan"
    /\ ui' = Step("scan", NormalOpening(config, series_name,
                                        Navigate(config, expansion_num)))
    /\ IF series_name \notin config.series_buttons
       THEN /\ Goto(AfterSeries(progress, current_difficulty, series_name,
                                b_exhausted))
            /\ UNCHANGED <<storeVars, nav, last_battle_location, outcome,
                           b_exhausted, scan>>
       ELSE /\ nav' = Navigate(config, expansion_num)
            /\ IF ~nav'.opened
               THEN /\ scan' = Scanned("normal", current_difficulty,
                                       series_name, expansion_num, FALSE, "",
                                       scan.resumed)
                    /\ BotMarkChecked(current_difficulty, series_name,
                                      expansion_num)
                    /\ Goto(ContinueLoop(progress', current_difficulty,
                                         series_name, expansion_num,
                                         b_exhausted))
                    /\ UNCHANGED <<last_battle_location, outcome, b_exhausted>>
               ELSE \E det \in Detections :
                       /\ scan' = Scanned("normal", current_difficulty,
                                          series_name, expansion_num, TRUE,
                                          det, scan.resumed)
                       /\ \/ /\ det = "raise"
                             /\ Return("raised")
                             /\ UNCHANGED <<storeVars, last_battle_location,
                                            current_series>>
                          \/ /\ det = "found"
                             /\ last_battle_location' =
                                   <<current_difficulty, series_name,
                                     expansion_num>>
                             /\ Return("found")
                             /\ progress' = ProgressAfterFind(progress,
                                                current_difficulty, series_name,
                                                expansion_num)
                             /\ UNCHANGED <<file, lastCall, calls, finder,
                                            current_series>>
                          \/ /\ det = "none"
                             /\ BotMarkChecked(current_difficulty, series_name,
                                               expansion_num)
                             /\ Goto(ContinueLoop(progress', current_difficulty,
                                                  series_name, expansion_num,
                                                  b_exhausted))
                             /\ UNCHANGED <<last_battle_location, outcome,
                                            b_exhausted>>
    /\ UNCHANGED <<config, current_difficulty, resume_from_battle,
                   sessionVars, bots>>

\* reset_to_beginner, called between two invocations
ResetToBeginner ==
    /\ pc = "idle"
    /\ current_difficulty' = "beginner"
    /\ current_series' = "A"
    /\ UNCHANGED <<storeVars, nav, config, last_battle_location, pc,
                   resume_from_battle, i, b_exhausted, series_name,
                   expansion_num, outcome, scan, sessionVars, ui, bots>>

\* the process ends and a new one is started: both __init__ run again, on the
\* progress file the old process left
Restart ==
    /\ pc = "idle"
    /\ progress' = load_progress(file)
    /\ lastCall' = NoCall
    /\ nav' = NoNav
    /\ current_difficulty' = "beginner"
    /\ current_series' = "A"
    /\ last_battle_location' = None
    /\ resume_from_battle' = FALSE
    /\ outcome' = "none"
    /\ scan' = NoScan
    /\ ui' = NoUi
    /\ UNCHANGED <<file, calls, finder, config, pc, i, b_exhausted, series_name,
                   expansion_num, sessionVars, bots>>

\* the sessions the model starts from: a first session (no progress file) under
\* any configuration, or a later one, on a progress file, fully calibrated
Init ==
    \E f \in {NoFile} \cup InitFiles, cfg \in Configs :
        /\ f = NoFile \/ cfg = CompleteConfig
        /\ Constructed(f, cfg)

\* run(resume_from_battle) called with either flag
Invoke(resume) ==
    /\ RunStart(resume)
    /\ UNCHANGED sessionVars

Next ==
    \/ \E resume \in BOOLEAN : Invoke(resume)
    \/ ResumeScan
    \/ QuickCheck
    \/ DifficultyStep
    \/ ScanExpansion
    \/ ResetToBeginner
    \/ Restart

Spec == Init /\ [][Next]_vars

\* a first session: no progress file yet, every coordinate calibrated
InitFresh == Constructed(NoFile, CompleteConfig)

SpecFresh == InitFresh /\ [][Next]_vars

----------------------------------------------------------------------------
(* SpecSession: run_infinite_battle_loop, the three stages of a cycle *)

\* what run() hands to its caller: every return statement of run() is a bare
\* return, so the caller gets None unless an exception leaves run()
Returned(how) == IF how = "raised" THEN "exception" ELSE "None"

ResumeAfter_sticky(raised) == TRUE

\* resume_mode at the end of an iteration: False in each except clause (lines
\* 80, 98, 122), True after stage 3 (line 115)
ResumeAfter(raised) == ~raised

\* cycle at the end of an iteration: `continue` in the except clauses skips
\* cycle += 1 (line 131)
CycleAfter(c, raised) == IF raised THEN c ELSE c + 1

\* lines 66-73: stage 1 calls battle_bot.run(resume_from_battle=resume_mode)
SessionFind ==
    /\ stage = "find"
    /\ RunStart(resume_mode)
    /\ stage' = "called"
    /\ UNCHANGED <<resume_mode, cycle>>

\* lines 74-82: run() is back. An exception turns resume mode off and starts
\* the next iteration; anything else prints "Battle started successfully" and
\* goes on to stage 2
SessionFindEnded ==
    /\ stage = "called"
    /\ pc = "idle"
    /\ IF Returned(outcome) = "exception"
       THEN /\ resume_mode' = ResumeAfter(TRUE)
            /\ stage' = "find"
       ELSE /\ stage' = "monitor"
            /\ UNCHANGED resume_mode
    /\ UNCHANGED <<cycle, storeVars, nav, config, current_difficulty, current_series,
                   last_battle_location, pc, resume_from_battle, i, b_exhausted,
                   series_name, expansion_num, outcome, scan, ui, bots>>

\* lines 83-99: stage 2, monitor_battle_end returns or raises
SessionMonitor ==
    /\ stage = "monitor"
    /\ \E raised \in BOOLEAN :
          IF raised
          THEN /\ resume_mode' = ResumeAfter(TRUE)
               /\ stage' = "find"
          ELSE /\ stage' = "reset"
               /\ UNCHANGED resume_mode
    /\ UNCHANGED <<cycle, storeVars, nav, config, current_difficulty, current_series,
                   last_battle_location, pc, resume_from_battle, i, b_exhausted,
                   series_name, expansion_num, outcome, scan, ui, bots>>

\* lines 101-132: stage 3. run_universal_reset or the state sync of the bot
\* raises, or both return: the bot's state is back at the difficulty the game
\* shows after a reset, resume mode is on and the cycle is counted
SessionReset ==
    /\ stage = "reset"
    /\ \E raised \in BOOLEAN :
          /\ raised \/ cycle <= MaxCycles
          /\ resume_mode' = ResumeAfter(raised)
          /\ cycle' = CycleAfter(cycle, raised)
          /\ IF raised
             THEN UNCHANGED <<current_difficulty, current_series>>
             ELSE /\ current_difficulty' = "beginner"
                  /\ current_series' = "A"
    /\ stage' = "find"
    /\ UNCHANGED <<storeVars, nav, config, last_battle_location, pc,
                   resume_from_battle, i, b_exhausted, series_name,
                   expansion_num, outcome, scan, ui, bots>>

NextSession ==
    \/ SessionFind
    \/ ResumeScan
    \/ QuickCheck
    \/ DifficultyStep
    \/ ScanExpansion
    \/ SessionFindEnded
    \/ SessionMonitor
    \/ SessionReset

SpecSession == Init /\ [][NextSession]_vars

----------------------------------------------------------------------------
(* SpecCancel: the session loop of a first session, stopped by CTRL+C *)

\* the UI actions the step of run() at the current position is going to issue
PendingActions ==
    IF pc = "resume"
    THEN ResumeOpening(last_battle_location[1], last_battle_location[2],
                       Navigate(config, last_battle_location[3]))
    ELSE IF pc = "check"
    THEN IF is_fully_exhausted(progress) THEN <<>> ELSE <<"detect">>
    ELSE IF pc = "difficulty"
    THEN IF i >= Len(Difficulties)
         THEN <<>>
         ELSE SwitchIfNeeded(current_difficulty, Difficulties[i + 1])
    ELSE IF pc = "scan"
    THEN NormalOpening(config, series_name, Navigate(config, expansion_num))
    ELSE <<>>

\* main, lines 137-145: KeyboardInterrupt is not an Exception, so none of the
\* except clauses of the loop catches it; it is raised wherever the process
\* is when the signal arrives, inside run() after any number of the actions
\* of the step under way, and ends run_infinite_battle_loop
Interrupt ==
    /\ stage # "stopped"
    /\ stage' = "stopped"
    /\ IF stage = "called" /\ pc # "idle"
       THEN /\ \E k \in 0..Len(PendingActions) :
                  ui' = Step("interrupted", SubSeq(PendingActions, 1, k))
            /\ pc' = "idle"
            /\ outcome' = "interrupted"
       ELSE UNCHANGED <<ui, pc, outcome>>
    /\ UNCHANGED <<storeVars, nav, config, current_difficulty, current_series,
                   last_battle_location, resume_from_battle, i, b_exhausted,
                   series_name, expansion_num, scan, resume_mode, cycle, bots>>

NextCancel ==
    \/ NextSession
    \/ Interrupt

SpecCancel == InitFresh /\ [][NextCancel]_vars

----------------------------------------------------------------------------
(* SpecMulti: the bot processes multi_bot_runner launches, one per device *)

\* every process is started in the runner's working directory, and
\* PROGRESS_FILE = "expansion_progress.json" is a relative path that does not
\* depend on the device: the processes read and write the one file
InitMulti == Constructed(NoFile, CompleteConfig)

\* multi_bot_runner.main, lines 109-133: Popen of bot_infinite_loop.py for one
\* device; the process builds its ProgressTracker, which loads PROGRESS_FILE
LaunchBot(dev) ==
    /\ ~bots[dev].up
    /\ bots' = [bots EXCEPT ![dev] = [up |-> TRUE,
                                      progress |-> load_progress(file),
                                      saved |-> FALSE]]
    /\ UNCHANGED <<storeVars, nav, config, current_difficulty, current_series,
                   last_battle_location, pc, resume_from_battle, i, b_exhausted,
                   series_name, expansion_num, outcome, scan, sessionVars, ui>>

\* mark_checked(difficulty, series, n) in the process of one device: it
\* updates the process's own dict and save_progress writes that dict to
\* PROGRESS_FILE
BotMark(dev, difficulty, series, n) ==
    /\ bots[dev].up
    /\ calls < MaxCalls
    /\ LET mine  == bots[dev].progress
           saves == mark_checked_saves(mine, difficulty, series, n)
       IN  /\ bots' = [bots EXCEPT
                         ![dev].progress =
                             mark_checked(mine, difficulty, series, n),
                         ![dev].saved = bots[dev].saved \/ saves]
           /\ file' = IF saves THEN save_progress(bots'[dev].progress) ELSE file
    /\ calls' = calls + 1
    /\ UNCHANGED <<progress, lastCall, finder, nav, config, current_difficulty,
                   current_series, last_battle_location, pc, resume_from_battle,
                   i, b_exhausted, series_name, expansion_num, outcome, scan,
                   sessionVars, ui>>

NextMulti ==
    \/ \E dev \in Devices : LaunchBot(dev)
    \/ \E dev \in Devices, d \in DifficultyNames, s \in SeriesNames,
          n \in 1..MaxN : BotMark(dev, d, s, n)

SpecMulti == InitMulti /\ [][NextMulti]_vars

----------------------------------------------------------------------------
(* The properties checked *)

\* checked_count of a key in a store: the recorded count, 0 when the store has
\* never recorded the key
checked_count(p, difficulty, series) ==
    IF get_key(difficulty, series) \in DOMAIN p
    THEN p[get_key(difficulty, series)]
    ELSE 0

Min(a, b) == IF a < b THEN a ELSE b
Max(a, b) == IF a > b THEN a ELSE b

\* the count the last mark_checked found for its key
MarkedBefore ==
    checked_count(lastCall.before, lastCall.difficulty, lastCall.series)

\* C1 as claimed: after mark_checked(d, s, n) with n >= checked_count(d, s),
\* forward jumps included, get_start_position(d, s) returns n + 1.
C1_AsClaimed ==
    (lastCall.op = "mark_checked" /\ lastCall.n >= MarkedBefore)
        => get_start_position(progress, lastCall.difficulty, lastCall.series)
             = lastCall.n + 1

\* C1 amended: mark_checked(d, s, n) from checked_count = c <= n leaves the start
\* position at n + 1 only for n = c + 1 (the count is set to n) and n = c (a
\* no-op); a forward jump n > c + 1 is discarded: the whole store is unchanged
\* and the start position stays c + 1.
C1_SequentialOnly ==
    (lastCall.op = "mark_checked" /\ lastCall.n >= MarkedBefore)
        => IF lastCall.n <= MarkedBefore + 1
           THEN /\ checked_count(progress, lastCall.difficulty, lastCall.series)
                     = lastCall.n
                /\ get_start_position(progress, lastCall.difficulty,
                                      lastCall.series) = lastCall.n + 1
           ELSE /\ progress = lastCall.before
                /\ get_start_position(progress, lastCall.difficulty,
                                      lastCall.series) = MarkedBefore + 1

\* a forward jump was attempted, and a sequential mark was made before it
C1_Witness ==
    /\ calls = 2
    /\ lastCall.op = "mark_checked"
    /\ MarkedBefore = 1
    /\ lastCall.n = 5
    /\ checked_count(progress, lastCall.difficulty, lastCall.series) = 1

\* C2: mark_checked(d, s, n) with n <= checked_count(d, s) changes the
\* checked_count of no key of the store.
C2_NoRegression ==
    (lastCall.op = "mark_checked" /\ lastCall.n <= MarkedBefore)
        => \A d \in DifficultyNames, s \in SeriesNames :
              checked_count(progress, d, s) = checked_count(lastCall.before, d, s)

\* a mark below the recorded count was made
C2_Witness ==
    /\ lastCall.op = "mark_checked"
    /\ lastCall.n < MarkedBefore
    /\ checked_count(progress, lastCall.difficulty, lastCall.series) = CountA

\* C3: no step of the orchestrator (any invocation, resuming or not, and a
\* restart of the process) lowers the checked_count of a key.
C3_Monotonic ==
    [][\A d \in DifficultyNames, s \in SeriesNames :
          checked_count(progress', d, s) >= checked_count(progress, d, s)]_vars

\* the resume phase re-marked an expansion below the recorded count
C3_Witness ==
    /\ pc = "check"
    /\ lastCall.op = "mark_checked"
    /\ lastCall.n < MarkedBefore
    /\ checked_count(progress, lastCall.difficulty, lastCall.series)
         = MarkedBefore

\* C4: the checked_count of a key never exceeds the catalog size of its series.
C4_WithinCatalog ==
    \A d \in DifficultyNames, s \in SeriesNames :
        checked_count(progress, d, s) <= EXPANSION_COUNTS[s]

\* the scan loop marked the last expansion of the A-series
C4_Witness ==
    /\ lastCall.op = "mark_checked"
    /\ lastCall.series = "A"
    /\ lastCall.n = EXPANSION_COUNTS["A"]
    /\ MarkedBefore = EXPANSION_COUNTS["A"] - 1
    /\ checked_count(progress, lastCall.difficulty, "A") = EXPANSION_COUNTS["A"]

\* C5: get_start_position(d, s) is checked_count(d, s) + 1, and 1 for a key the
\* store has never recorded.
C5_StartPosition ==
    \A d \in DifficultyNames, s \in SeriesNames :
        /\ get_start_position(progress, d, s) = checked_count(progress, d, s) + 1
        /\ get_key(d, s) \notin DOMAIN progress
              => get_start_position(progress, d, s) = 1

\* a store with a key never recorded and a key that was marked
C5_Witness ==
    /\ get_key("beginner", "A") \notin DOMAIN progress
    /\ lastCall.op = "mark_checked"
    /\ get_start_position(progress, lastCall.difficulty, lastCall.series) = 3

\* C6: is_series_exhausted(d, s, total) is true exactly when
\* checked_count(d, s) >= total, for every total >= 0.
C6_SeriesExhausted ==
    \A d \in DifficultyNames, s \in SeriesNames, total \in 0..MaxTotal :
        is_series_exhausted(progress, d, s, total)
            <=> checked_count(progress, d, s) >= total

\* a key marked up to exactly 2, and a key never recorded
C6_Witness ==
    /\ lastCall.op = "mark_checked"
    /\ checked_count(progress, lastCall.difficulty, lastCall.series) = 2
    /\ is_series_exhausted(progress, lastCall.difficulty, lastCall.series, 2)
    /\ ~is_series_exhausted(progress, lastCall.difficulty, lastCall.series, 3)
    /\ get_key("beginner", "B") \notin DOMAIN progress

\* C7 as claimed: is_fully_exhausted() is true exactly when every pair of the
\* four difficulties and the catalog series has checked_count >= Catalog[series].
C7_AsClaimed ==
    is_fully_exhausted(progress)
        <=> \A d \in DifficultyNames, s \in SeriesNames :
               checked_count(progress, d, s) >= EXPANSION_COUNTS[s]

\* C8: after reset_progress every key has checked_count 0 and start position 1,
\* and no series with a non-empty catalog is exhausted.
C8_Reset ==
    lastCall.op = "reset_progress"
        => \A d \in DifficultyNames, s \in SeriesNames :
              /\ checked_count(progress, d, s) = 0
              /\ get_start_position(progress, d, s) = 1
              /\ EXPANSION_COUNTS[s] > 0
                    => ~is_series_exhausted(progress, d, s, EXPANSION_COUNTS[s])

\* reset_progress ran on a store that held exhausted beginner keys
C8_Witness ==
    /\ lastCall.op = "reset_progress"
    /\ checked_count(lastCall.before, "beginner", "A") = CountA
    /\ checked_count(lastCall.before, "beginner", "B") = CountB
    /\ checked_count(lastCall.before, "expert", "A") = CountA

\* C9: the number of list scroll gestures made to reach expansion n >= 1 is
\* max(0, n - 2).
C9_Scrolls ==
    nav.n >= 1 => nav.scrolls = Max(0, nav.n - 2)

\* expansion 4 was navigated to, with 2 gestures
C9_Witness ==
    /\ nav.n = 4
    /\ nav.scrolls = 2

\* C10 as claimed: the 1-indexed list slot tapped to open expansion n is
\* min(n, 3).
C10_AsClaimed ==
    (nav.n >= 1 /\ nav.opened) => nav.slot = Min(nav.n, 3)

\* C10 amended: the 1-indexed list slot tapped to open expansion n is
\* min(n + 1, 3): slot 2 for n = 1 and the bottom slot 3 for every n >= 2.
C10_SlotTapped ==
    (nav.n >= 1 /\ nav.opened) => nav.slot = Min(nav.n + 1, 3)

\* expansion 1 was opened through the middle slot
C10_Witness ==
    /\ nav.n = 1
    /\ nav.opened
    /\ nav.slot = 2

----------------------------------------------------------------------------
(* The finder's clusters, click point and verification *)

\* where a stable sort by y puts icons[j]: behind the icons above it and behind
\* the earlier icons of the same y
RankByY(icons, j) ==
    Cardinality({m \in 1..Len(icons) :
                    \/ icons[m][2] < icons[j][2]
                    \/ icons[m][2] = icons[j][2] /\ m <= j})

\* the y-sorted detections: each icon at its rank
YSorted(icons) ==
    [k \in 1..Len(icons) |->
        icons[CHOOSE j \in 1..Len(icons) : RankByY(icons, j) = k]]

\* the maximal runs <<a, e>> (positions in the y-sorted list s) in which each
\* member is less than 80px below its predecessor, with 2 members or more
MaximalRuns(s) ==
    {r \in (1..Len(s)) \X (1..Len(s)) :
        /\ r[1] < r[2]
        /\ r[1] = 1 \/ s[r[1]][2] - s[r[1] - 1][2] >= 80
        /\ r[2] = Len(s) \/ s[r[2] + 1][2] - s[r[2]][2] >= 80
        /\ \A k \in (r[1] + 1)..r[2] : s[k][2] - s[k - 1][2] < 80}

\* the runs in top-to-bottom order: run r is the cluster numbered by the runs
\* that start no later
RunsTopToBottom(s, clusters) ==
    /\ Len(clusters) = Cardinality(MaximalRuns(s))
    /\ \A r \in MaximalRuns(s) :
          clusters[Cardinality({q \in MaximalRuns(s) : q[1] <= r[1]})]
              = SubSeq(s, r[1], r[2])

\* C11: for every list of detections, group_icons_into_battles returns the
\* maximal runs of the y-sorted detections in which each member is less than
\* 80px below its predecessor, only the runs of 2 members or more, from top to
\* bottom
C11_Clustering ==
    finder.op = "find" =>
        RunsTopToBottom(YSorted(finder.icons), finder.clusters)

YsOf(seq) == [k \in 1..Len(seq) |-> seq[k][2]]

\* the detections at y = 10, 50, 140, 160 and 500, listed out of order, give
\* the clusters {10, 50} and {140, 160}; the one at 500 is dropped
C11_Witness ==
    /\ finder.op = "find"
    /\ YsOf(finder.icons) = <<160, 500, 10, 140, 50>>
    /\ Len(finder.clusters) = 2
    /\ YsOf(finder.clusters[1]) = <<10, 50>>
    /\ YsOf(finder.clusters[2]) = <<140, 160>>

\* the top-most run of 2 detections or more
TopRun(s) == CHOOSE r \in MaximalRuns(s) : \A q \in MaximalRuns(s) : r[1] <= q[1]

\* m is the integer mean of the coordinate `field` over the members of cluster
IsIntegerMean(m, cluster, field) ==
    /\ m * Len(cluster) <= SumOf(cluster, field)
    /\ SumOf(cluster, field) < (m + 1) * Len(cluster)

\* C12: find_battle_with_rewards reports the integer mean of the centres of the
\* top-most cluster of 2 detections or more, and no match (None) when no
\* cluster has 2 members
C12_TopClusterMean ==
    finder.op = "find" =>
        LET s == YSorted(finder.icons)
        IN  IF MaximalRuns(s) = {}
            THEN finder.click = NoPos
            ELSE /\ finder.click # NoPos
                 /\ Len(finder.click) = 2
                 /\ \A f \in 1..2 :
                       IsIntegerMean(finder.click[f],
                                     SubSeq(s, TopRun(s)[1], TopRun(s)[2]), f)

\* two battles on screen, the upper one with centres (100, 10) and (131, 50):
\* the click goes to (115, 30)
C12_Witness ==
    /\ finder.op = "find"
    /\ finder.icons = <<<<131, 160, 200>>, <<131, 50, 200>>,
                        <<100, 140, 200>>, <<100, 10, 200>>>>
    /\ Len(finder.clusters) = 2
    /\ finder.click = <<115, 30>>

\* a single isolated icon is no match
C12_NoMatchWitness ==
    /\ finder.op = "find"
    /\ Len(finder.icons) = 1
    /\ finder.click = NoPos

SquaredDistance(p1, p2) ==
    (p2[1] - p1[1]) * (p2[1] - p1[1]) + (p2[2] - p1[2]) * (p2[2] - p1[2])

\* the k-th re-detection is made (no earlier one failed with an exception) and
\* gives a point within 50px of click_pos
Confirms(click_pos, rechecks, k) ==
    /\ \A j \in 1..(k - 1) : rechecks[j][1] # "raise"
    /\ rechecks[k][1] = "pos"
    /\ SquaredDistance(click_pos, rechecks[k][2]) <= 50 * 50

\* C13: verify_detection accepts (x1, y1) if and only if some re-detection
\* within the allowed attempts gives (x2, y2) with
\* (x2 - x1)^2 + (y2 - y1)^2 <= 50^2
C13_VerifyWithin50 ==
    finder.op = "verify" =>
        (finder.result # NoPos <=>
            \E k \in 1..finder.max_attempts :
                Confirms(finder.click_pos, finder.rechecks, k))

\* (100, 100) rechecked at (200, 200) and then at (130, 140), exactly 50px away:
\* accepted at the second attempt
C13_Witness ==
    /\ finder.op = "verify"
    /\ finder.click_pos = <<100, 100>>
    /\ finder.max_attempts = 2
    /\ finder.rechecks = <<<<"pos", <<200, 200>>>>, <<"pos", <<130, 140>>>>>>
    /\ finder.result = <<130, 140>>

\* (100, 100) rechecked at (200, 200) and then not detected: rejected
C13_RejectWitness ==
    /\ finder.op = "verify"
    /\ finder.click_pos = <<100, 100>>
    /\ finder.rechecks = <<<<"pos", <<200, 200>>>>, <<"none", NoPos>>>>
    /\ finder.result = NoPos
    /\ ~finder.raised

----------------------------------------------------------------------------
(* The search of run(): finds, misses and the resume phase *)

\* the invocation's last scan was one of the normal search and found a battle
FoundInNormalSearch ==
    /\ pc = "idle"
    /\ scan.phase = "normal"
    /\ scan.det = "found"

\* C14: when the normal search finds a candidate in expansion (d, s, n), the
\* location saved for resuming is (d, s, n), the invocation ends with the find,
\* and nothing is marked: checked_count(d, s) stays n - 1 and the series is not
\* exhausted, also for n = Catalog[s]
C14_FindSetsResumeLocation ==
    FoundInNormalSearch =>
        /\ outcome = "found"
        /\ last_battle_location = <<scan.difficulty, scan.series, scan.n>>
        /\ checked_count(progress, scan.difficulty, scan.series) = scan.n - 1
        /\ scan.count = scan.n - 1
        /\ ~is_series_exhausted(progress, scan.difficulty, scan.series,
                                EXPANSION_COUNTS[scan.series])

\* a find in the last expansion of the A-series
C14_Witness ==
    /\ FoundInNormalSearch
    /\ scan.series = "A"
    /\ scan.n = EXPANSION_COUNTS["A"]
    /\ checked_count(progress, scan.difficulty, "A") = EXPANSION_COUNTS["A"] - 1

\* the last expansion run() opened was scanned by the normal search and held no
\* reward
MissInNormalSearch ==
    /\ scan.phase = "normal"
    /\ scan.opened
    /\ scan.det = "none"

\* C15: when the normal search finds no candidate in expansion (d, s, n), it
\* calls mark_checked(d, s, n), checked_count(d, s) is n afterwards, and the
\* next expansion scanned in that series is n + 1 (none when n is the last)
C15_MissMarksAndMovesOn ==
    MissInNormalSearch =>
        /\ lastCall.op = "mark_checked"
        /\ lastCall.difficulty = scan.difficulty
        /\ lastCall.series = scan.series
        /\ lastCall.n = scan.n
        /\ checked_count(progress, scan.difficulty, scan.series) = scan.n
        /\ IF scan.n < EXPANSION_COUNTS[scan.series]
           THEN /\ pc = "scan"
                /\ current_difficulty = scan.difficulty
                /\ series_name = scan.series
                /\ expansion_num = scan.n + 1
           ELSE ~(/\ pc = "scan"
                  /\ current_difficulty = scan.difficulty
                  /\ series_name = scan.series)

\* A-series expansion 4 held nothing: it is marked and 5 is next
C15_Witness ==
    /\ MissInNormalSearch
    /\ scan.series = "A"
    /\ scan.n = 4
    /\ scan.count = 3
    /\ checked_count(progress, scan.difficulty, "A") = 4
    /\ pc = "scan"
    /\ expansion_num = 5

\* the step that opens the first expansion of an invocation
FirstOpening ==
    /\ scan.phase = "none"
    /\ scan'.phase # "none"

\* what a find in the expansion opened leaves behind
HitReturnsUntouched ==
    (scan'.opened /\ scan'.det = "found") =>
        /\ pc' = "idle"
        /\ outcome' = "found"
        /\ last_battle_location' = last_battle_location
        /\ progress' = progress
        /\ file' = file

DifficultiesBefore(name) ==
    Cardinality({k \in 1..Len(Difficulties) :
                    \E j \in (k + 1)..Len(Difficulties) : Difficulties[j] = name})

\* C17: when the resume scan of ResumeLocation (d, s, n) finds no candidate,
\* run() calls mark_checked(d, s, n), clears the location and goes on with the
\* normal search; its difficulty loop starts at d, and no difficulty before d is
\* visited in that invocation
C17_ResumeMiss ==
    [][/\ (pc = "resume" /\ scan'.opened /\ scan'.det = "none") =>
            /\ lastCall'.op = "mark_checked"
            /\ <<lastCall'.difficulty, lastCall'.series, lastCall'.n>>
                  = last_battle_location
            /\ last_battle_location' = None
            /\ pc' = "check"
       /\ (pc = "check" /\ pc' = "difficulty" /\ scan.phase = "resume") =>
            i' = DifficultiesBefore(scan.difficulty)
       /\ (scan.resumed # None /\ pc' \in {"difficulty", "scan"}) =>
            i' >= DifficultiesBefore(scan.resumed[1])
       /\ (scan'.phase = "normal" /\ scan'.resumed # None) =>
            DifficultiesBefore(scan'.difficulty)
                >= DifficultiesBefore(scan'.resumed[1])]_vars

\* the resume of (advanced, B, 1) found nothing: the expansion is marked, the
\* location is gone and the difficulty loop is at advanced, with beginner
\* expansions still unchecked
C17_Witness ==
    /\ scan.phase = "resume"
    /\ scan.opened
    /\ scan.det = "none"
    /\ <<scan.difficulty, scan.series, scan.n>> = <<"advanced", "B", 1>>
    /\ lastCall.op = "mark_checked"
    /\ lastCall.difficulty = "advanced"
    /\ checked_count(progress, "advanced", "B") = 1
    /\ last_battle_location = None
    /\ pc = "difficulty"
    /\ i = 2
    /\ checked_count(progress, "beginner", "A") = 0

\* C18 as claimed: the bot never rechecks an exhausted expansion; an expansion
\* run() opens and scans, in the normal search or in the resume phase, is not
\* marked checked at that moment (checked_count(d, s) < n)
C18_AsClaimed ==
    (scan.opened /\ scan.det # "") => scan.count < scan.n

----------------------------------------------------------------------------
(* What the caller of run() learns *)

\* the three outcomes of an invocation: a match found and engaged, an explicit
\* exhausted / no-reward result, a raised failure
OutcomeKind(how) ==
    IF how = "found" THEN "click"
    ELSE IF how = "raised" THEN "failure"
    ELSE "exhausted"

Outcomes == {"found", "all_checked", "no_rewards", "no_region", "raised"}

\* C19 as claimed: every invocation ends in one of three outcomes the caller
\* can tell apart, and the session loop goes on to battle-end monitoring only
\* after an invocation that found and engaged a match
C19_AsClaimed ==
    /\ (stage = "called" /\ pc = "idle") =>
          /\ outcome \in Outcomes
          /\ \A how \in Outcomes :
                Returned(how) = Returned(outcome)
                    => OutcomeKind(how) = OutcomeKind(outcome)
    /\ stage = "monitor" => outcome = "found"

----------------------------------------------------------------------------
(* Termination of run() *)

\* the most steps one difficulty can take: its own step and a scan of every
\* expansion of both series
StepsPerDifficulty == 1 + CountA + CountB

\* an upper bound on the navigation-and-detection steps the invocation still
\* has to make, 0 between invocations
StepsLeft ==
    IF pc = "idle" THEN 0
    ELSE IF pc = "resume" THEN 3 + Len(Difficulties) * StepsPerDifficulty
    ELSE IF pc = "check" THEN 2 + Len(Difficulties) * StepsPerDifficulty
    ELSE IF pc = "difficulty"
    THEN 1 + (Len(Difficulties) - i) * StepsPerDifficulty
    ELSE 1 + (Len(Difficulties) - i - 1) * StepsPerDifficulty
           + (IF series_name = "A"
              THEN (CountA - expansion_num + 1) + CountB
              ELSE CountB - expansion_num + 1)

\* C20: every invocation of run() terminates after a bounded number of
\* navigation and detection steps: each step of an invocation lowers a bound
\* that is never negative, whatever the store, the resume location, the
\* detections and the navigation failures
C20_Terminates ==
    [][pc # "idle" => (StepsLeft' < StepsLeft /\ StepsLeft' >= 0)]_vars

\* an invocation that went through every difficulty, scanned the last
\* expansion of all and returned with nothing found
C20_Witness ==
    /\ pc = "idle"
    /\ outcome = "no_rewards"
    /\ scan.phase = "normal"
    /\ <<scan.difficulty, scan.series, scan.n>> = <<"expert", "B", 1>>
    /\ scan.det = "none"
    /\ checked_count(progress, "expert", "B") = 1

\* C21: a bot process that has saved its progress finds its own record in
\* its progress file afterwards, whatever the processes of the other devices
\* do in between: no other session overwrites it or adds marks to it.
C21_AsClaimed ==
    \A dev \in Devices :
        bots[dev].up /\ bots[dev].saved => file = save_progress(bots[dev].progress)

\* C22: an invocation of run() under a configuration without
\* battle_list_region, the region its first action needs, ends by raising to
\* its caller: it never returns normally.
C22_AsClaimed ==
    (pc = "idle" /\ outcome # "none" /\ ~config.battle_list_region)
        => outcome = "raised"

\* C23: under a complete configuration, an invocation that ends before any
\* navigation of the normal search (and not in the resume phase) has run the
\* detector exactly once on the current screen; and when the quick check
\* reports a candidate the invocation returns it with the progress record,
\* its file and the resume location unchanged.
C23_AsClaimed ==
    [][/\ (/\ config = CompleteConfig
           /\ pc' = "idle" /\ outcome' # "none"
           /\ ui'.step \in {"none", "check"})
          => ui'.actions = <<"detect">>
       /\ (pc = "check" /\ outcome' = "found")
          => /\ ui'.actions = <<"detect">>
             /\ progress' = progress
             /\ file' = file
             /\ last_battle_location' = last_battle_location]_vars

\* the place of a difficulty in the fixed order
Rank(d) ==
    CHOOSE k \in 1..4 :
        <<"beginner", "intermediate", "advanced", "expert">>[k] = d

\* the difficulty loop of run() enters a difficulty in this step
EntersDifficulty == pc = "difficulty" /\ pc' # "idle"

AllSeriesExhausted(p, d) ==
    /\ checked_count(p, d, "A") >= CountA
    /\ checked_count(p, d, "B") >= CountB

\* C25: when the difficulty loop has just taken a difficulty whose series
\* are all exhausted, it issued no UI action for it: no back press, no
\* difficulty scroll or tap, no expansion navigation, no detection.
C25_AsClaimed ==
    (ui.step = "difficulty" /\ AllSeriesExhausted(progress, current_difficulty))
        => ui.actions = <<>>

\* Catalog[series]
Catalog(series) == IF series = "A" THEN CountA ELSE CountB

\* the ordinal loop of the series is left in this step and run() goes on
LeavesSeries ==
    /\ pc = "scan"
    /\ outcome' = "running"
    /\ pc' # "scan" \/ series_name' # series_name

ScrollsFor(n) == IF n <= 2 THEN 0 ELSE n - 2

\* the positions of a UI action in a sequence of actions
Places(actions, a) == {k \in 1..Len(actions) : actions[k] = a}

\* the actions open expansion n as claimed: the expansion menu, the series
\* button, exactly scrolls(n) list scrolls, the slot, one after the other
OpensInOrder(actions, n) ==
    \E k \in Places(actions, "slot_tap") :
        /\ Places(actions, "slot_tap") = {k}
        /\ k - ScrollsFor(n) - 2 >= 1
        /\ actions[k - ScrollsFor(n) - 2] = "menu"
        /\ actions[k - ScrollsFor(n) - 1] = "series_tap"
        /\ Places(actions, "list_scroll") = (k - ScrollsFor(n))..(k - 1)

\* C27: every step of run() that opened an expansion (s, n), in the normal
\* search or in the resume phase, issued the expansion menu, the tap of the
\* series button, exactly scrolls(n) list scrolls and the slot tap, in this
\* order; the series button is tapped every time.
C27_AsClaimed ==
    Places(ui.actions, "slot_tap") # {} => OpensInOrder(ui.actions, scan.n)

\* the UI actions issued after the slot tap, inside the expansion
InsideExpansion(actions) ==
    LET k == CHOOSE j \in Places(actions, "slot_tap") : TRUE
    IN  SubSeq(actions, k + 1, Len(actions))

\* C28: every scan run() makes inside an expansion it opened consists of
\* exactly three fast scrolls followed by exactly one detection: nothing is
\* detected before the last scroll and nothing after the first detection.
C28_ScanShape ==
    Places(ui.actions, "slot_tap") # {}
        => InsideExpansion(ui.actions)
             = <<"fast_scroll", "fast_scroll", "fast_scroll", "detect">>

\* the scan of an expansion reached after one list scroll found a battle
C28_Witness ==
    /\ ui.step = "scan"
    /\ Places(ui.actions, "slot_tap") # {}
    /\ scan.opened
    /\ scan.n = 3
    /\ scan.det = "found"

\* a step of run() that navigated to an expansion, records it in scan
NavigationStep == pc \in {"scan", "resume"} /\ scan' # scan

\* C29: whenever run() navigates to an expansion (d, s, n) and the opening
\* fails, in the normal search or in the resume phase, the checked count of
\* (d, s) is at least n after the step and the invocation goes on.
C29_UnreachableIsMarked ==
    [][(NavigationStep /\ ~scan'.opened)
          => /\ checked_count(progress', scan'.difficulty, scan'.series)
                  >= scan'.n
             /\ outcome' = "running"]_vars

\* with two calibrated slots, expansion 1 was scanned and the opening of
\* expansion 2 failed
C29_Witness ==
    /\ scan.phase = "normal"
    /\ ~scan.opened
    /\ scan.n = 2
    /\ scan.count = 1
    /\ config.expansion_slots = 2

\* C30: when the ordinal loop of a series is left without a find, with the
\* series button calibrated, the checked count of the series has reached its
\* catalog total, whatever the count was when the loop started and whichever
\* of the openings inside the loop failed.
C30_LoopExhausts ==
    [][(LeavesSeries /\ series_name \in config.series_buttons)
          => checked_count(progress', current_difficulty, series_name)
               >= Catalog(series_name)]_vars

\* in an invocation that resumed at expansion 1 of series A and marked it, the
\* loop of series A started from a count of 1, ran to its last ordinal with
\* the last opening failing, and the series is exhausted
C30_Witness ==
    /\ scan.phase = "normal"
    /\ scan.series = "A"
    /\ scan.n = CountA
    /\ ~scan.opened
    /\ scan.resumed = <<scan.difficulty, "A", 1>>
    /\ pc = "scan"
    /\ series_name = "B"
    /\ checked_count(progress, current_difficulty, "A") = CountA

\* every (difficulty, series) pair of the four difficulties is exhausted
EverythingExhausted(p) ==
    \A d \in {"beginner", "intermediate", "advanced", "expert"} :
        AllSeriesExhausted(p, d)

\* run() ended with one of its two no-reward results
NoRewardResult == pc = "idle" /\ outcome \in {"all_checked", "no_rewards"}

\* C31: in a session started from an empty store under a complete
\* configuration, an invocation that ended with a no-reward result ("all
\* expansions already checked" or "no rewards found in any difficulty") left
\* every pair of the four difficulties exhausted.
C31_NoRewardMeansExhausted == NoRewardResult => EverythingExhausted(progress)

\* an invocation found every pair exhausted at its exhaustion test and ended
\* without a detection
C31_Witness ==
    /\ NoRewardResult
    /\ outcome = "all_checked"
    /\ ui = Step("check", <<>>)
    /\ EverythingExhausted(progress)

\* C32: whenever an invocation of run() has ended and a resume location
\* (d, s, n) is held, expansion (d, s, n) is not marked checked: the checked
\* count of (d, s) is below n.
C32_AsClaimed ==
    (pc = "idle" /\ last_battle_location # None)
        => checked_count(progress, last_battle_location[1],
                         last_battle_location[2])
             < last_battle_location[3]

\* the screenshot of the scan made in this step raised
RaisingScan ==
    /\ pc \in {"scan", "resume"}
    /\ outcome = "running"
    /\ scan'.det = "raise"

\* what a failed step leaves alone: the progress record, its file and the
\* resume location
FailureFrame ==
    /\ progress' = progress
    /\ file' = file
    /\ last_battle_location' = last_battle_location

IterationEnds == stage # "find" /\ stage' = "find"

\* C34: a stage that raises ends the iteration at once, leaving the cycle
\* counter alone and resume mode off: after a raising run() stages 2 and 3
\* are not entered, and an iteration that ends before or without completing
\* stage 3 does not count. The counter advances, by one, exactly when stage 3
\* completed, and resume mode is on at the start of the next iteration exactly
\* then; the traversal is invoked with the resume mode the iteration started
\* with.
C34_RetryPolicy ==
    [][/\ (stage = "called" /\ pc = "idle" /\ outcome = "raised")
          => stage' = "find" /\ ~resume_mode' /\ cycle' = cycle
       /\ IterationEnds
          => /\ cycle' \in {cycle, cycle + 1}
             /\ cycle' = cycle + 1 => stage = "reset"
             /\ resume_mode' <=> cycle' = cycle + 1
       /\ ~IterationEnds => cycle' = cycle /\ resume_mode' = resume_mode
       /\ (stage = "find" /\ stage' = "called")
          => resume_from_battle' = resume_mode]_vars

\* the first cycle completed and the second iteration runs the traversal in
\* resume mode
C34_Witness ==
    /\ cycle = 2
    /\ resume_mode
    /\ stage = "called"
    /\ resume_from_battle
    /\ pc = "resume"

\* the actions are whole navigation sequences under a complete
\* configuration: none at all, or ending with the detection inside an
\* expansion or with the tap that selects a difficulty
WholeSequences(actions) ==
    \/ actions = <<>>
    \/ actions[Len(actions)] \in {"detect", "difficulty_tap"}

\* C35: when the session was stopped by an interrupt that arrived during a
\* traversal, the UI actions issued by the step under way form whole
\* navigation sequences: the session does not stop between two actions of
\* one sequence.
C35_AsClaimed ==
    (stage = "stopped" /\ ui.step = "interrupted")
        => WholeSequences(ui.actions)

\* the k-th re-detection does not confirm click_pos: it saw no candidate, or
\* one farther than 50px away
Unconfirmed(click_pos, rechecks, k) ==
    \/ rechecks[k][1] = "none"
    \/ /\ rechecks[k][1] = "pos"
       /\ SquaredDistance(click_pos, rechecks[k][2]) > 50 * 50

\* C36: verify_detection(click_pos, N) makes at most N re-detections; when it
\* returns a point, the last re-detection it made confirmed click_pos and
\* every one before was unconfirmed; and when all N re-detections are
\* unconfirmed (no candidate counts as unconfirmed) it makes exactly N and
\* returns no point, without raising.
C36_BoundedVerification ==
    finder.op = "verify" =>
        /\ finder.made <= finder.max_attempts
        /\ finder.result # NoPos
             => /\ finder.made \in 1..finder.max_attempts
                /\ Confirms(finder.click_pos, finder.rechecks, finder.made)
                /\ finder.result = finder.rechecks[finder.made][2]
                /\ \A j \in 1..(finder.made - 1) :
                      Unconfirmed(finder.click_pos, finder.rechecks, j)
        /\ (\A k \in 1..finder.max_attempts :
               Unconfirmed(finder.click_pos, finder.rechecks, k))
             => /\ finder.result = NoPos
                /\ ~finder.raised
                /\ finder.made = finder.max_attempts

\* two attempts, neither re-detection sees a candidate: no point is returned
C36_Witness ==
    /\ finder.op = "verify"
    /\ finder.max_attempts = 2
    /\ finder.rechecks = <<<<"none", NoPos>>, <<"none", NoPos>>>>
    /\ finder.made = 2
    /\ finder.result = NoPos
    /\ ~finder.raised

----------------------------------------------------------------------------
(* The component filter of find_reward_icons *)

\* the detection a contour gives when it is kept
DetectionOf(region, contour) ==
    <<region[1] + contour[2][1] + (contour[2][3] \div 2),
      region[2] + contour[2][2] + (contour[2][4] \div 2),
      contour[1]>>

\* the contours of the last find_reward_icons call with a positive height
TallContours ==
    {finder.contours[k] : k \in 1..Len(finder.contours)}
        \ {c \in Contours : c[2][4] = 0}

Detected(contour) ==
    \E k \in 1..Len(finder.detections) :
        finder.detections[k] = DetectionOf(finder.region, contour)

\* C37 as stated: with a calibrated region, a component of area a and box
\* w x h (h > 0) yields a detection iff 150 <= a <= 3000 and
\* 0.5 <= w/h <= 2.5, the interval ends included
C37_AsClaimed ==
    (finder.op = "icons" /\ finder.region # <<>>) =>
        \A c \in TallContours :
            Detected(c) <=> (/\ 150 <= c[1] /\ c[1] <= 3000
                             /\ c[2][4] <= 2 * c[2][3]
                             /\ 2 * c[2][3] <= 5 * c[2][4])

\* C37: with a calibrated region, a component of area a and box w x h
\* (h > 0) yields a detection iff 150 < a < 3000 and 0.5 < w/h < 2.5: a
\* component whose area is exactly 150 or 3000, or whose aspect ratio is
\* exactly 0.5 or 2.5, is dropped
C37_StrictFilter ==
    (finder.op = "icons" /\ finder.region # <<>>) =>
        \A c \in TallContours :
            Detected(c) <=> (/\ 150 < c[1] /\ c[1] < 3000
                             /\ c[2][4] < 2 * c[2][3]
                             /\ 2 * c[2][3] < 5 * c[2][4])

\* a call that kept one component and dropped another whose area is exactly
\* 150 and whose box is square
C37_Witness ==
    /\ finder.op = "icons"
    /\ finder.region # <<>>
    /\ Len(finder.contours) = 2
    /\ Len(finder.detections) = 1
    /\ \E c \in TallContours : c[1] = 150 /\ c[2][3] = c[2][4] /\ ~Detected(c)

----------------------------------------------------------------------------
(* The marks run() issues never skip ahead *)

\* C39: every mark_checked(d, s, n) issued by run() has
\* n <= checked_count(d, s) + 1 when it is called, so none is discarded as a
\* skipped expansion
C39_NoSkipAhead ==
    lastCall.op = "mark_checked" =>
        lastCall.n <= checked_count(lastCall.before, lastCall.difficulty,
                                    lastCall.series) + 1

\* a mark issued in the resume phase for an expansion n >= 2 that the count
\* of its key had already reached: the store ignores it as a repeat
C39_Witness ==
    /\ lastCall.op = "mark_checked"
    /\ scan.phase = "resume"
    /\ lastCall.n >= 2
    /\ lastCall.n <= checked_count(lastCall.before, lastCall.difficulty,
                                   lastCall.series)

----------------------------------------------------------------------------
(* What a restarted process reads back from the progress file *)

ProgressKeys(p) == DOMAIN p \cup AllKeys \cup DOMAIN DefaultProgress

\* a tracker constructed now reports the count of this store for every key
RoundTrip(f, p) ==
    \A k \in ProgressKeys(p) \cup ProgressKeys(load_progress(f)) :
        Get(load_progress(f), k, 0) = Get(p, k, 0)

\* C40: after a mark_checked that changed a count, and after reset_progress,
\* a tracker constructed from the progress file has the count of the store in
\* memory for every key; a mark_checked that changed nothing leaves the file
\* as it was
C40_RoundTrip ==
    [][/\ (lastCall'.op = "mark_checked" /\ progress' # progress)
            => RoundTrip(file', progress')
       /\ (lastCall'.op = "reset_progress" /\ calls' # calls)
            => RoundTrip(file', progress')
       /\ (lastCall'.op = "mark_checked" /\ calls' # calls
                                          /\ progress' = progress)
            => file' = file]_vars

\* the second call of a session, a mark that changed a count of a store
\* holding the default counts, after which the file holds the store
C40_Witness ==
    /\ calls = 2
    /\ lastCall.op = "mark_checked"
    /\ progress # lastCall.before
    /\ lastCall.before = DefaultProgress
    /\ file = save_progress(progress)

----------------------------------------------------------------------------
(* SpecLive: run() invoked again and again by the session loop *)

\* a session on any progress file, fully calibrated
InitLive ==
    \E f \in {NoFile} \cup InitFiles : Constructed(f, CompleteConfig)

\* bot_infinite_loop, "while True": the next invocation of run(), with the
\* flag the loop holds, or the next step of the invocation under way
NextLive ==
    \/ \E resume \in BOOLEAN : Invoke(resume)
    \/ ResumeScan
    \/ QuickCheck
    \/ DifficultyStep
    \/ ScanExpansion

\* the loop never stops invoking run(), and every step of run() is followed
\* by the next after its sleep
SpecLive == InitLive /\ [][NextLive]_vars /\ WF_vars(NextLive)

\* a step in which a detection reports a candidate, or fails
CandidateReported == pc # "idle" /\ pc' = "idle" /\ outcome' = "found"
DetectionFailed == pc # "idle" /\ pc' = "idle" /\ outcome' = "raised"

============================================================================
